---------------------------- MODULE Spec2Model ----------------------------
(***************************************************************************)
(* GTFS Santiago analytics: the Fetcher (src/ingest_gtfs.py), the Loader   *)
(* (src/build_duckdb.py) and the Dashboard (src/app.py) as one state       *)
(* machine over the shared on-disk artifacts: data/raw (archives and       *)
(* latest.json), data/extracted and data/gtfs.duckdb.                      *)
(*                                                                         *)
(* Text is modelled as sequences of character codes (ASCII), so that       *)
(* Python's string comparison, split, lower and the regular expression     *)
(* GTFS_(\d{8}) are computed rather than assumed.                          *)
(***************************************************************************)
EXTENDS Integers, Sequences, FiniteSets, TLC

VARIABLES
    override,   \* GTFS_ZIP_URL_OVERRIDE (empty text: not configured)
    page,       \* the scraped page: HTTP status, anchor hrefs, .zip URLs in its text
    resolved,   \* outcome of find_gtfs_zip_url
    raw,        \* data/raw: archive name -> [body, mtime] (body 0: no such file)
    latest,     \* data/raw/latest.json: {} or {[filename, size_bytes]}
    extracted,  \* data/extracted: directory -> file -> body it was extracted from (0: absent)
    db,         \* data/gtfs.duckdb: table name -> body its rows were read from (0: no table)
    meta,       \* table _meta: "none" (no table) or its set of rows
    dbfile,     \* whether data/gtfs.duckdb exists
    now,        \* the wall clock (one tick per download)
    fpc,        \* Fetcher: position in ingest_gtfs.py
    fbody,      \* Fetcher: the body the server answered with
    fok,        \* history: the most recent download that passed the magic check
    lpc,        \* Loader: position in build_duckdb.py
    lzip,       \* Loader: zip_path chosen by find_latest_zip
    lidx,       \* Loader: index into GTFS_FILES of the loop in load_to_duckdb
    lcalled,    \* Loader: whether extract_zip called extractall in this run
    lprior,     \* history: extract_zip had already completed on this archive before this run
    dbBefore,   \* history: db and meta when the current Loader run connected
    aborts,     \* history: Loader runs that aborted inside the loop of load_to_duckdb
    extractedOnce, \* history: (archive name, body) pairs with a completed extract_zip run
    allLoadsOk, \* history: no Loader run has failed so far
    dpc,        \* Dashboard: position in app.py
    dash        \* Dashboard: the widgets' values and the script's variables

urlVars == <<override, page, resolved>>
diskVars == <<raw, latest>>
fetchVars == <<fpc, fbody, fok>>
loadVars == <<lpc, lzip, lidx, lcalled, lprior>>
dbVars == <<db, meta, dbfile>>
histVars == <<dbBefore, aborts, extractedOnce, allLoadsOk>>
dashVars == <<dpc, dash>>

vars == <<override, page, resolved, raw, latest, extracted, db, meta, dbfile, now,
          fpc, fbody, fok, lpc, lzip, lidx, lcalled, lprior, dbBefore, aborts,
          extractedOnce, allLoadsOk, dpc, dash>>

----------------------------------------------------------------------------
(* Text helpers: Python str operations on sequences of character codes.    *)

MaxOf(S) == CHOOSE x \in S : \A y \in S : y <= x

\* str.lower() on ASCII text
Lower(s) == [i \in 1..Len(s) |-> IF s[i] >= 65 /\ s[i] <= 90 THEN s[i] + 32 ELSE s[i]]

\* t in s
Contains(s, t) == \E i \in 0..(Len(s) - Len(t)) : SubSeq(s, i + 1, i + Len(t)) = t

\* s.endswith(t)
EndsWith(s, t) == Len(s) >= Len(t) /\ SubSeq(s, Len(s) - Len(t) + 1, Len(s)) = t

\* a < b for Python str: code-point lexicographic, a proper prefix is smaller
StrLess(a, b) ==
    \E i \in 1..Len(b) :
        /\ \A j \in 1..(i - 1) : j <= Len(a) /\ a[j] = b[j]
        /\ (i > Len(a) \/ a[i] < b[i])

\* s.split(c)[-1]
AfterLast(s, c) ==
    LET idx == {i \in 1..Len(s) : s[i] = c}
    IN  IF idx = {} THEN s ELSE SubSeq(s, MaxOf(idx) + 1, Len(s))

\* s.split(c)[0]
BeforeFirst(s, c) ==
    LET idx == {i \in 1..Len(s) : s[i] = c}
    IN  IF idx = {} THEN s
        ELSE SubSeq(s, 1, (CHOOSE i \in idx : \A j \in idx : i <= j) - 1)

IsDigit(c) == c >= 48 /\ c <= 57

\* the texts the code names
GtfsPrefix == <<71, 84, 70, 83, 95>>                 \* "GTFS_"
ZeroDate == <<48, 48, 48, 48, 48, 48, 48, 48>>       \* "00000000"
DotZip == <<46, 122, 105, 112>>                      \* ".zip"
DefaultName == <<103, 116, 102, 115, 46, 122, 105, 112>>  \* "gtfs.zip"

----------------------------------------------------------------------------
(* Fetcher: URL resolution.                                                *)

\* re.search(r"GTFS_(\d{8})", name): the leftmost match's group 1, or <<>>
\* for None (a match is never empty, and the caller tests it with `or`).
extract_date_from_filename(name) ==
    LET hits == {i \in 1..(Len(name) - 12) :
                    /\ SubSeq(name, i, i + 4) = GtfsPrefix
                    /\ \A j \in (i + 5)..(i + 12) : IsDigit(name[j])}
    IN  IF hits = {} THEN <<>>
        ELSE LET i == CHOOSE h \in hits : \A g \in hits : h <= g
             IN  SubSeq(name, i + 5, i + 12)

\* key(u): (date or "00000000", fname)
key(u) ==
    LET fname == AfterLast(u, 47)
        d == extract_date_from_filename(fname)
    IN  <<IF d = <<>> THEN ZeroDate ELSE d, fname>>

\* tuple comparison of two keys
KeyLess(k1, k2) == StrLess(k1[1], k2[1]) \/ (k1[1] = k2[1] /\ StrLess(k1[2], k2[2]))

\* sorted(set(candidates))
RECURSIVE SortedSet(_)
SortedSet(S) ==
    IF S = {} THEN <<>>
    ELSE LET m == CHOOSE x \in S : \A y \in S : x = y \/ StrLess(x, y)
         IN  <<m>> \o SortedSet(S \ {m})

\* sorted(candidates, key=key): Python's sort is stable
RECURSIVE SortedByKey(_)
SortedByKey(s) ==
    IF s = <<>> THEN <<>>
    ELSE LET front == SortedByKey(SubSeq(s, 1, Len(s) - 1))
             u == s[Len(s)]
             k == Cardinality({i \in 1..Len(front) : ~KeyLess(key(u), key(front[i]))})
         IN  SubSeq(front, 1, k) \o <<u>> \o SubSeq(front, k + 1, Len(front))

\* the candidates collected from the page: anchors whose href contains ".zip"
\* (case-insensitively), else the .zip URLs found in the page text
Candidates(p) ==
    LET anchors == {h \in p.links : h # <<>> /\ Contains(Lower(h), DotZip)}
    IN  IF anchors # {} THEN anchors
        ELSE {t \in p.text : EndsWith(Lower(t), DotZip)}

\* find_gtfs_zip_url(): [st |-> "returned", url |-> u] or [st |-> "raised"]
find_gtfs_zip_url(ov, p) ==
    IF ov # <<>> THEN [st |-> "returned", url |-> ov]
    ELSE IF ~p.ok THEN [st |-> "raised", url |-> <<>>]
    ELSE IF Candidates(p) = {} THEN [st |-> "raised", url |-> <<>>]
    ELSE LET sorted == SortedByKey(SortedSet(Candidates(p)))
         IN  [st |-> "returned", url |-> sorted[Len(sorted)]]

----------------------------------------------------------------------------
(* The URLs the model draws pages from.                                    *)

Site == <<104, 116, 116, 112, 58, 47, 47, 100, 47>>  \* "http://d/"
D2024 == <<50, 48, 50, 52, 48, 49, 48, 49>>          \* "20240101"
D2025 == <<50, 48, 50, 53, 48, 49, 48, 49>>          \* "20250101"

UrlOld == Site \o GtfsPrefix \o D2024 \o DotZip             \* http://d/GTFS_20240101.zip
UrlNew == Site \o GtfsPrefix \o D2025 \o DotZip             \* http://d/GTFS_20250101.zip
UrlNewSub == Site \o <<101, 47>> \o GtfsPrefix \o D2025 \o DotZip  \* http://d/e/GTFS_20250101.zip
UrlNewA == Site \o <<97>> \o GtfsPrefix \o D2025 \o DotZip  \* http://d/aGTFS_20250101.zip
UrlZero == Site \o GtfsPrefix \o ZeroDate \o DotZip         \* http://d/GTFS_00000000.zip
UrlPlain == Site \o <<122, 122, 122>> \o DotZip             \* http://d/zzz.zip
UrlLower == Site \o <<103, 116, 102, 115, 95>> \o D2025 \o <<46, 90, 73, 80>>  \* http://d/gtfs_20250101.ZIP
UrlHtml == Site \o <<105, 110, 102, 111, 46, 104, 116, 109, 108>>  \* http://d/info.html

LinkPool == {UrlOld, UrlNew, UrlNewSub, UrlNewA, UrlZero, UrlPlain, UrlLower, UrlHtml}
TextPool == {UrlPlain, UrlOld}

UrlPages == [ok : BOOLEAN, links : SUBSET LinkPool, text : {{}, {UrlPlain}, TextPool}]

----------------------------------------------------------------------------
(* The rows of the feeds. Every column is text (all_varchar=true); Null is  *)
(* SQL NULL, which read_csv produces for an empty field. A number that a    *)
(* TRY_CAST yields is <<n>>, and <<>> when it yields NULL; coordinates are  *)
(* in hundredths of a degree.                                               *)

Null == "<null>"
NullNum == <<>>

RoutesOf(b) ==
    IF b = 1 THEN {"R1", "R2"} ELSE IF b = 2 THEN {"R1"} ELSE {}

TripsOf(b) ==
    IF b = 1 THEN
        { [trip_id |-> "T1", route_id |-> "R1", direction_id |-> "0", shape_id |-> "SH1"],
          [trip_id |-> "T2", route_id |-> "R1", direction_id |-> Null, shape_id |-> Null],
          [trip_id |-> "T3", route_id |-> "R2", direction_id |-> "1", shape_id |-> ""] }
    ELSE IF b = 2 THEN
        { [trip_id |-> "T1", route_id |-> "R1", direction_id |-> "0", shape_id |-> "SH1"],
          [trip_id |-> "T4", route_id |-> "R1", direction_id |-> "1", shape_id |-> Null] }
    ELSE {}

StopTimesOf(b) ==
    IF b = 1 THEN
        { [trip_id |-> "T1", stop_id |-> "S1", stop_sequence |-> 1],
          [trip_id |-> "T1", stop_id |-> "S2", stop_sequence |-> 2],
          [trip_id |-> "T3", stop_id |-> "S3", stop_sequence |-> 1] }
    ELSE IF b = 2 THEN
        { [trip_id |-> "T1", stop_id |-> "S1", stop_sequence |-> 1],
          [trip_id |-> "T1", stop_id |-> "S2", stop_sequence |-> 2],
          [trip_id |-> "T4", stop_id |-> "S3", stop_sequence |-> 1] }
    ELSE {}

\* stop_lat and stop_lon after TRY_CAST(... AS DOUBLE): S3's are not numbers
StopsOf(b) ==
    IF b \in {1, 2} THEN
        { [stop_id |-> "S1", stop_lat |-> <<-3340>>, stop_lon |-> <<-7060>>],
          [stop_id |-> "S2", stop_lat |-> <<-3342>>, stop_lon |-> <<-7062>>],
          [stop_id |-> "S3", stop_lat |-> NullNum, stop_lon |-> NullNum] }
    ELSE {}

\* shape points after the TRY_CASTs, in file order
ShapesOf(b) ==
    IF b = 1 THEN
        << [shape_id |-> "SH1", lat |-> <<-3344>>, lon |-> <<-7064>>, seq |-> 2],
           [shape_id |-> "SH1", lat |-> <<-3340>>, lon |-> <<-7060>>, seq |-> 1],
           [shape_id |-> "SH1", lat |-> NullNum, lon |-> <<-7070>>, seq |-> 3] >>
    ELSE <<>>

\* the Dashboard's variables before a script run
NoShape == [queried |-> FALSE, points |-> <<>>]

NoDash ==
    [route_id |-> "", direction_filter |-> "", show_shapes |-> FALSE, show_stops |-> FALSE,
     trips |-> {}, trip_id |-> "", shape_id |-> Null, n_trips |-> 0, n_stops |-> 0,
     stops |-> {}, shape_points |-> NoShape, center |-> <<0, 0>>,
     polyline |-> <<>>, markers |-> {}, error |-> ""]

----------------------------------------------------------------------------
(* The shared on-disk artifacts.                                           *)

MaxFetches == 2     \* downloads that reach the disk in one behaviour
MaxAborts == 1      \* Loader runs that abort inside the loading loop in one behaviour

\* GTFS_FILES, each name as its tokens: <<"shapes", ".txt">> is shapes.txt
GTFS_FILES ==
    << <<"agency", ".txt">>, <<"stops", ".txt">>, <<"routes", ".txt">>,
       <<"trips", ".txt">>, <<"stop_times", ".txt">>, <<"calendar", ".txt">>,
       <<"calendar_dates", ".txt">>, <<"shapes", ".txt">>, <<"frequencies", ".txt">>,
       <<"transfers", ".txt">>, <<"pathways", ".txt">>, <<"feed_info", ".txt">> >>

GtfsFileSet == {GTFS_FILES[i] : i \in 1..Len(GTFS_FILES)}

F(base) == <<base, ".txt">>

PK == <<80, 75>>    \* b"PK"

\* What the server can answer a download with: a full feed, a feed without
\* shapes.txt (and without the optional tables), and an HTML error page.
Bodies ==
    << [magic |-> PK, size |-> 30,
        names |-> {F("agency"), F("stops"), F("routes"), F("trips"), F("stop_times"),
                   F("calendar"), F("shapes"), F("feed_info")}],
       [magic |-> PK, size |-> 20,
        names |-> {F("agency"), F("stops"), F("routes"), F("trips"), F("stop_times"),
                   F("calendar")}],
       [magic |-> <<60, 33>>, size |-> 5, names |-> {}] >>

BodyIds == 1..Len(Bodies)

\* download_zip: url.split("/")[-1].split("?")[0] or "gtfs.zip"
FileNameOf(url) ==
    LET n == BeforeFirst(AfterLast(url, 47), 63)
    IN  IF n = <<>> THEN DefaultName ELSE n

\* pathlib's Path.stem: the name without its last suffix
Stem(name) ==
    LET idx == {i \in 2..(Len(name) - 1) : name[i] = 46}
    IN  IF idx = {} THEN name ELSE SubSeq(name, 1, MaxOf(idx) - 1)

\* the pages the Fetcher may be served in the pipeline
PipelinePages ==
    { [ok |-> TRUE, links |-> {UrlOld, UrlHtml}, text |-> {}],
      [ok |-> TRUE, links |-> {UrlOld, UrlNew}, text |-> {}],
      [ok |-> TRUE, links |-> {UrlHtml}, text |-> {}],
      [ok |-> FALSE, links |-> {}, text |-> {}] }

Names == {FileNameOf(UrlOld), FileNameOf(UrlNew)}
NameA == FileNameOf(UrlOld)
NameB == FileNameOf(UrlNew)
Dirs == {Stem(n) : n \in Names}
TableNames == {f[1] : f \in GtfsFileSet}

NoFile == [body |-> 0, mtime |-> 0]
Exists(n) == n \in Names /\ raw[n].body # 0

NoMeta == [exists |-> FALSE, rows |-> {}]
NoSnapshot == [db |-> [t \in TableNames |-> 0], meta |-> NoMeta]
NoPage == [ok |-> TRUE, links |-> {}, text |-> {}]
Pending == [st |-> "pending", url |-> <<>>]

\* The disks a run may start from: a fresh checkout; an archive copied in by
\* hand; a record whose archive was removed; two archives and no record.
EmptyDisk == [raw |-> [n \in Names |-> NoFile], latest |-> {}]
ManualDisk == [raw |-> [n \in Names |-> IF n = NameA THEN [body |-> 1, mtime |-> 0] ELSE NoFile],
               latest |-> {}]
LostDisk == [raw |-> [n \in Names |-> IF n = NameA THEN [body |-> 1, mtime |-> 0] ELSE NoFile],
             latest |-> {[filename |-> NameB, size_bytes |-> 20]}]
TwoDisk == [raw |-> [n \in Names |-> IF n = NameA THEN [body |-> 1, mtime |-> -1]
                                                  ELSE [body |-> 2, mtime |-> 0]],
            latest |-> {}]
InitDisks == {EmptyDisk, ManualDisk, LostDisk, TwoDisk}

InitPipeline(disk) ==
    /\ raw = disk.raw
    /\ latest = disk.latest
    /\ extracted = [d \in Dirs |-> [f \in GtfsFileSet |-> 0]]
    /\ db = [t \in TableNames |-> 0]
    /\ meta = NoMeta
    /\ dbfile = FALSE
    /\ now = 0
    /\ fpc = "idle"
    /\ fbody = 0
    /\ fok = disk.latest
    /\ lpc = "idle"
    /\ lzip = <<>>
    /\ lidx = 0
    /\ lcalled = FALSE
    /\ lprior = FALSE
    /\ dbBefore = NoSnapshot
    /\ aborts = 0
    /\ extractedOnce = {}
    /\ allLoadsOk = TRUE
    /\ dpc = "idle"
    /\ dash = NoDash

\* Each stage is a script run to completion from a shell: a run starts only
\* when no other run is in progress.
NoRun == fpc = "idle" /\ lpc = "idle" /\ dpc = "idle"

----------------------------------------------------------------------------
(* Fetcher: ingest_gtfs.py                                                 *)

out_path == FileNameOf(resolved.url)

\* __main__: url = find_gtfs_zip_url()
FetchResolve ==
    /\ NoRun
    /\ now < MaxFetches
    /\ \E p \in PipelinePages :
        /\ page' = p
        /\ resolved' = find_gtfs_zip_url(override, p)
    /\ fpc' = IF resolved'.st = "returned" THEN "resolved" ELSE "failed"
    /\ fbody' = 0
    /\ UNCHANGED <<override, raw, latest, extracted, now, fok>>
    /\ UNCHANGED <<loadVars, dbVars, histVars, dashVars>>

\* download_zip: r.raise_for_status() raises on a non-success status
FetchHttpError ==
    /\ fpc = "resolved"
    /\ fpc' = "failed"
    /\ UNCHANGED <<urlVars, diskVars, extracted, now, fbody, fok>>
    /\ UNCHANGED <<loadVars, dbVars, histVars, dashVars>>

\* download_zip: the connection breaks while the body is streamed to the .part
\* file. The .part file stays behind; nothing reads it, and the next download of
\* the name truncates it (open(tmp, "wb")), so it is not part of the state.
FetchStreamBroken ==
    /\ fpc = "resolved"
    /\ fbody' = 0
    /\ fpc' = "broken"
    /\ UNCHANGED <<urlVars, raw, latest, extracted, now, fok>>
    /\ UNCHANGED <<loadVars, dbVars, histVars, dashVars>>

\* download_zip: the whole body is streamed to the .part file
FetchStream ==
    /\ fpc = "resolved"
    /\ \E b \in BodyIds : fbody' = b
    /\ now' = now + 1
    /\ fpc' = "streamed"
    /\ UNCHANGED <<urlVars, raw, latest, extracted, fok>>
    /\ UNCHANGED <<loadVars, dbVars, histVars, dashVars>>

\* download_zip: tmp.replace(out_path)
FetchPromote ==
    /\ fpc = "streamed"
    /\ raw' = [raw EXCEPT ![out_path] = [body |-> fbody, mtime |-> now]]
    /\ fpc' = "promoted"
    /\ UNCHANGED <<urlVars, latest, extracted, now, fbody, fok>>
    /\ UNCHANGED <<loadVars, dbVars, histVars, dashVars>>

\* the first two bytes of the file at out_path
MagicOf(n) == Bodies[raw[n].body].magic

\* a variant that takes the size before the file is in place
ProvenanceRecordNoSize(n) == [filename |-> n, size_bytes |-> 0]

\* the record written to latest.json (its filename and size_bytes fields)
ProvenanceRecord(n) == [filename |-> n, size_bytes |-> Bodies[raw[n].body].size]

\* download_zip: the sanity check of the magic bytes
FetchValidate ==
    /\ fpc = "promoted"
    /\ IF MagicOf(out_path) # PK
       THEN fpc' = "failed" /\ fok' = fok
       ELSE /\ fpc' = "validated"
            /\ fok' = {[filename |-> out_path, size_bytes |-> Bodies[fbody].size]}
    /\ UNCHANGED <<urlVars, diskVars, extracted, now, fbody>>
    /\ UNCHANGED <<loadVars, dbVars, histVars, dashVars>>

\* download_zip: latest.json is written
FetchRecord ==
    /\ fpc = "validated"
    /\ latest' = {ProvenanceRecord(out_path)}
    /\ fpc' = "done"
    /\ UNCHANGED <<urlVars, raw, extracted, now, fbody, fok>>
    /\ UNCHANGED <<loadVars, dbVars, histVars, dashVars>>

\* the script exits (an uncaught exception, or the end of __main__)
FetchExit ==
    /\ fpc \in {"failed", "broken", "done"}
    /\ fpc' = "idle"
    /\ page' = NoPage
    /\ resolved' = Pending
    /\ fbody' = 0
    /\ UNCHANGED <<override, diskVars, extracted, now, fok>>
    /\ UNCHANGED <<loadVars, dbVars, histVars, dashVars>>

FetcherNext ==
    \/ FetchResolve
    \/ FetchHttpError
    \/ FetchStreamBroken
    \/ FetchStream
    \/ FetchPromote
    \/ FetchValidate
    \/ FetchRecord
    \/ FetchExit

----------------------------------------------------------------------------
(* Loader: build_duckdb.py                                                 *)

\* RAW_DIR.glob("*.zip")
Zips == {n \in Names : Exists(n) /\ EndsWith(n, DotZip)}

\* a variant that never reads latest.json
find_latest_zip_by_mtime == {n \in Zips : \A m \in Zips : raw[m].mtime <= raw[n].mtime}

\* find_latest_zip(): the paths it can return (none: it raises). Archives with
\* equal mtime are ordered by the directory listing, which is arbitrary.
find_latest_zip ==
    IF latest # {} /\ \E r \in latest : Exists(r.filename)
    THEN {r.filename : r \in latest}
    ELSE {n \in Zips : \A m \in Zips : raw[m].mtime <= raw[n].mtime}

\* __main__: zip_path = find_latest_zip()
LoadFind ==
    /\ NoRun
    /\ IF find_latest_zip = {}
       THEN lpc' = "failed" /\ lzip' = <<>> /\ allLoadsOk' = FALSE
       ELSE /\ \E z \in find_latest_zip : lzip' = z
            /\ lpc' = "found"
            /\ allLoadsOk' = allLoadsOk
    /\ UNCHANGED dashVars
    /\ UNCHANGED <<urlVars, diskVars, extracted, now, fetchVars, dbVars>>
    /\ UNCHANGED <<lidx, lcalled, lprior, dbBefore, aborts, extractedOnce>>

out_dir == Stem(lzip)

\* a variant without the filter `if f in names`
needs_any_missing(names) == \E f \in GtfsFileSet : extracted[out_dir][f] = 0

\* extract_zip: needs = any(not (out_dir / f).exists() for f in GTFS_FILES if f in names)
needs(names) == \E f \in GtfsFileSet : f \in names /\ extracted[out_dir][f] = 0

\* z.extractall(out_dir): every member is written, replacing what is there
extractall(b) ==
    [extracted EXCEPT ![out_dir] =
        [f \in GtfsFileSet |-> IF f \in Bodies[b].names THEN b ELSE extracted[out_dir][f]]]

\* extract_zip(zip_path); zipfile.ZipFile raises BadZipFile on a file that is no ZIP
LoadExtract ==
    /\ lpc = "found"
    /\ LET b == raw[lzip].body IN
       IF Bodies[b].magic # PK
       THEN /\ lpc' = "failed"
            /\ allLoadsOk' = FALSE
            /\ UNCHANGED <<extracted, lcalled, lprior, extractedOnce>>
       ELSE /\ lcalled' = needs(Bodies[b].names)
            /\ lprior' = (<<lzip, b>> \in extractedOnce)
            /\ extracted' = IF needs(Bodies[b].names) THEN extractall(b) ELSE extracted
            /\ extractedOnce' = extractedOnce \cup {<<lzip, b>>}
            /\ lpc' = "extracted"
            /\ allLoadsOk' = allLoadsOk
    /\ UNCHANGED dashVars
    /\ UNCHANGED <<urlVars, diskVars, now, fetchVars, dbVars, lzip, lidx, dbBefore, aborts>>

\* load_to_duckdb: duckdb.connect creates the file; CREATE SCHEMA IF NOT EXISTS gtfs
LoadConnect ==
    /\ lpc = "extracted"
    /\ dbfile' = TRUE
    /\ lidx' = 1
    /\ dbBefore' = [db |-> db, meta |-> meta]
    /\ lpc' = "loading"
    /\ UNCHANGED dashVars
    /\ UNCHANGED <<urlVars, diskVars, extracted, now, fetchVars>>
    /\ UNCHANGED <<db, meta, lzip, lcalled, lprior, aborts, extractedOnce, allLoadsOk>>

\* fname.replace(".txt", "")
StripTxt(fname) == SelectSeq(fname, LAMBDA t : t # ".txt")

\* The table that CREATE OR REPLACE TABLE gtfs.{table} names, with
\* table = "gtfs." + fname.replace(".txt", ""): the statement reads
\* gtfs.gtfs.<name>, which DuckDB resolves as catalog gtfs (the database file
\* gtfs.duckdb), schema gtfs, table <name>.
CreatedTable(fname) ==
    LET path == <<"gtfs">> \o <<"gtfs">> \o StripTxt(fname)
    IN  path[Len(path)]

\* load_to_duckdb: the loop skips a file that is not in the extracted directory
FilePresent(fname) == extracted[out_dir][fname] # 0

LoadSkip ==
    /\ lpc = "loading"
    /\ lidx <= Len(GTFS_FILES)
    /\ ~FilePresent(GTFS_FILES[lidx])
    /\ lidx' = lidx + 1
    /\ UNCHANGED dashVars
    /\ UNCHANGED <<urlVars, diskVars, extracted, now, fetchVars, dbVars>>
    /\ UNCHANGED <<lpc, lzip, lcalled, lprior, histVars>>

\* load_to_duckdb: CREATE OR REPLACE TABLE ... AS SELECT * FROM read_csv_auto(...)
LoadTable ==
    /\ lpc = "loading"
    /\ lidx <= Len(GTFS_FILES)
    /\ FilePresent(GTFS_FILES[lidx])
    /\ db' = [db EXCEPT ![CreatedTable(GTFS_FILES[lidx])] = extracted[out_dir][GTFS_FILES[lidx]]]
    /\ lidx' = lidx + 1
    /\ UNCHANGED dashVars
    /\ UNCHANGED <<urlVars, diskVars, extracted, now, fetchVars, meta, dbfile>>
    /\ UNCHANGED <<lpc, lzip, lcalled, lprior, histVars>>

\* a variant in which the loop runs in one transaction that the failure rolls back
LoadTableFailsRollback ==
    /\ lpc = "loading"
    /\ lidx <= Len(GTFS_FILES)
    /\ FilePresent(GTFS_FILES[lidx])
    /\ aborts < MaxAborts
    /\ aborts' = aborts + 1
    /\ lpc' = "failed"
    /\ allLoadsOk' = FALSE
    /\ db' = dbBefore.db
    /\ UNCHANGED dashVars
    /\ UNCHANGED <<urlVars, diskVars, extracted, now, fetchVars, meta, dbfile>>
    /\ UNCHANGED <<lzip, lidx, lcalled, lprior, dbBefore, extractedOnce>>

\* load_to_duckdb: the statement raises (a malformed CSV); the run aborts
LoadTableFails ==
    /\ lpc = "loading"
    /\ lidx <= Len(GTFS_FILES)
    /\ FilePresent(GTFS_FILES[lidx])
    /\ aborts < MaxAborts
    /\ aborts' = aborts + 1
    /\ lpc' = "failed"
    /\ allLoadsOk' = FALSE
    /\ UNCHANGED dashVars
    /\ UNCHANGED <<urlVars, diskVars, extracted, now, fetchVars, dbVars>>
    /\ UNCHANGED <<lzip, lidx, lcalled, lprior, dbBefore, extractedOnce>>

\* load_to_duckdb: CREATE OR REPLACE TABLE gtfs.gtfs._meta
LoadMetaCreate ==
    /\ lpc = "loading"
    /\ lidx > Len(GTFS_FILES)
    /\ meta' = [exists |-> TRUE, rows |-> {}]
    /\ lpc' = "meta"
    /\ UNCHANGED dashVars
    /\ UNCHANGED <<urlVars, diskVars, extracted, now, fetchVars, db, dbfile>>
    /\ UNCHANGED <<lzip, lidx, lcalled, lprior, histVars>>

\* load_to_duckdb: INSERT INTO gtfs.gtfs._meta VALUES (now(), extracted_dir)
LoadMetaInsert ==
    /\ lpc = "meta"
    /\ meta' = [meta EXCEPT !.rows = @ \cup {[loaded_at |-> now, extracted_dir |-> out_dir]}]
    /\ lpc' = "done"
    /\ UNCHANGED dashVars
    /\ UNCHANGED <<urlVars, diskVars, extracted, now, fetchVars, db, dbfile>>
    /\ UNCHANGED <<lzip, lidx, lcalled, lprior, histVars>>

\* the script exits (an uncaught exception, or the end of __main__)
LoadExit ==
    /\ lpc \in {"failed", "done"}
    /\ lpc' = "idle"
    /\ lzip' = <<>>
    /\ lidx' = 0
    /\ lcalled' = FALSE
    /\ lprior' = FALSE
    /\ dbBefore' = NoSnapshot
    /\ UNCHANGED dashVars
    /\ UNCHANGED <<urlVars, diskVars, extracted, now, fetchVars, dbVars>>
    /\ UNCHANGED <<aborts, extractedOnce, allLoadsOk>>

LoaderNext ==
    \/ LoadFind
    \/ LoadExtract
    \/ LoadConnect
    \/ LoadSkip
    \/ LoadTable
    \/ LoadTableFails
    \/ LoadMetaCreate
    \/ LoadMetaInsert
    \/ LoadExit

----------------------------------------------------------------------------
(* Dashboard: app.py                                                       *)

\* a table gtfs.gtfs.<name> a query names
HasTable(name) == db[name] # 0

\* qdf("SHOW TABLES")["name"]: the bare names of the tables of schema gtfs
\* (DuckDB lists no schema-qualified name; a release that lists only the
\* tables of the search path lists fewer names, never a qualified one).
ShowTables ==
    {<<t>> : t \in {n \in TableNames : HasTable(n)}} \cup (IF meta.exists THEN {<<"_meta">>} ELSE {})

\* the test at the end of the condition guarding the shapes query
ShapesTableListed == <<"gtfs", ".", "shapes">> \in ShowTables

\* Series.astype(str) on a text column: None becomes the text "None"
AsTypeStr(v) == IF v = Null THEN "None" ELSE v

\* a variant that compares the column without astype(str) to the filter's text,
\* as if the column held numbers: nothing matches
FilterTripsNoCast(trips, direction_filter) ==
    IF direction_filter # "Ambas" THEN {} ELSE trips

\* trips[trips["direction_id"].astype(str) == direction_filter]
FilterTrips(trips, direction_filter) ==
    IF direction_filter # "Ambas"
    THEN {t \in trips : AsTypeStr(t.direction_id) = direction_filter}
    ELSE trips

RECURSIVE SumOf(_, _)
SumOf(S, col) ==
    IF S = {} THEN 0
    ELSE LET r == CHOOSE x \in S : TRUE IN r[col][1] + SumOf(S \ {r}, col)

\* float(df[col].mean()), on values whose mean is a whole number of hundredths
MeanOf(S, col) == SumOf(S, col) \div Cardinality(S)

SeqToSet(q) == {q[i] : i \in 1..Len(q)}

\* ORDER BY seq of the selected shape's rows, then dropna(subset=["lat", "lon"])
RECURSIVE OrderBySeq(_)
OrderBySeq(S) ==
    IF S = {} THEN <<>>
    ELSE LET m == CHOOSE x \in S : \A y \in S : x.seq <= y.seq
         IN  <<m>> \o OrderBySeq(S \ {m})

ShapeQuery(shape_id) ==
    LET rows == {r \in SeqToSet(ShapesOf(db["shapes"])) : r.shape_id = shape_id}
    IN  SelectSeq(OrderBySeq(rows), LAMBDA r : r.lat # NullNum /\ r.lon # NullNum)

\* the stops query: stop_times of the trip joined with stops, without the rows
\* whose coordinates are not numbers
StopsQuery(trip_id) ==
    {[stop_id |-> st.stop_id, stop_sequence |-> st.stop_sequence,
      stop_lat |-> s.stop_lat, stop_lon |-> s.stop_lon] :
        <<st, s>> \in {x \in StopTimesOf(db["stop_times"]) \X StopsOf(db["stops"]) :
                        /\ x[1].trip_id = trip_id
                        /\ x[1].stop_id = x[2].stop_id
                        /\ x[2].stop_lat # NullNum
                        /\ x[2].stop_lon # NullNum}}

DefaultCenter == <<-3345, -7065>>   \* -33.45, -70.65

\* a variant without the fixed default coordinate
MapCenterNoFallback(stops, shape_points) ==
    IF stops # {}
    THEN <<MeanOf(stops, "stop_lat"), MeanOf(stops, "stop_lon")>>
    ELSE IF shape_points.points # <<>>
    THEN <<MeanOf(SeqToSet(shape_points.points), "lat"),
           MeanOf(SeqToSet(shape_points.points), "lon")>>
    ELSE <<0, 0>>

\* lines 132-139: the map's centre
MapCenter(stops, shape_points) ==
    IF stops # {}
    THEN <<MeanOf(stops, "stop_lat"), MeanOf(stops, "stop_lon")>>
    ELSE IF shape_points.queried /\ shape_points.points # <<>>
    THEN <<MeanOf(SeqToSet(shape_points.points), "lat"),
           MeanOf(SeqToSet(shape_points.points), "lon")>>
    ELSE DefaultCenter

DashFail(why) ==
    /\ dpc' = "failed"
    /\ dash' = [dash EXCEPT !.error = why]

\* lines 17-52: get_con(), the routes query and the sidebar
DashOpen ==
    /\ NoRun
    /\ IF ~dbfile THEN DashFail("FileNotFoundError")
       ELSE IF ~HasTable("routes") THEN DashFail("CatalogException")
       ELSE IF RoutesOf(db["routes"]) = {} THEN DashFail("IndexError")
       ELSE /\ \E r \in RoutesOf(db["routes"]) : dash' = [dash EXCEPT !.route_id = r]
            /\ dpc' = "sidebar"
    /\ UNCHANGED <<urlVars, diskVars, extracted, now, fetchVars, loadVars, dbVars, histVars>>

\* lines 55-72: the trips of the route, the direction filter, the empty-result halt
DashTrips ==
    /\ dpc = "sidebar"
    /\ IF ~HasTable("trips") THEN DashFail("CatalogException")
       ELSE \E direction_filter \in {"Ambas", "0", "1"} :
            LET all == {t \in TripsOf(db["trips"]) : t.route_id = dash.route_id}
                trips == FilterTrips(all, direction_filter)
            IN  IF trips = {}
                THEN /\ dpc' = "halted"
                     /\ dash' = [dash EXCEPT !.direction_filter = direction_filter]
                ELSE /\ dpc' = "trip"
                     /\ \E t \in trips :
                          dash' = [dash EXCEPT !.direction_filter = direction_filter,
                                               !.trips = trips,
                                               !.trip_id = t.trip_id,
                                               !.shape_id = t.shape_id]
    /\ UNCHANGED <<urlVars, diskVars, extracted, now, fetchVars, loadVars, dbVars, histVars>>

\* lines 75-82: n_stops, the distinct stops of the route's trips
StopCount ==
    Cardinality({st.stop_id : st \in {x \in StopTimesOf(db["stop_times"]) :
        \E t \in TripsOf(db["trips"]) :
            t.route_id = dash.route_id /\ t.trip_id = x.trip_id}})

\* lines 119-129: shape_points
ShapePoints(show_shapes) ==
    IF /\ show_shapes
       /\ dash.shape_id # Null
       /\ dash.shape_id # ""
       /\ ShapesTableListed
    THEN [queried |-> TRUE, points |-> ShapeQuery(dash.shape_id)]
    ELSE NoShape

\* lines 75-194: the metrics, the stops, the shape, the map's centre, the
\* polyline, the markers, the panels and the diagnostics expander that reads
\* _meta. The arrival and departure time texts of the metrics are not kept.
DashRender ==
    /\ dpc = "trip"
    /\ IF ~HasTable("stop_times") \/ ~HasTable("trips") \/ ~HasTable("stops") \/ ~meta.exists
       THEN DashFail("CatalogException")
       ELSE \E show_shapes \in BOOLEAN, show_stops \in BOOLEAN :
            LET stops == StopsQuery(dash.trip_id)
                shape_points == ShapePoints(show_shapes)
            IN  /\ dpc' = "done"
                /\ dash' = [dash EXCEPT
                     !.n_trips = Cardinality(dash.trips),
                     !.n_stops = StopCount,
                     !.show_shapes = show_shapes,
                     !.show_stops = show_stops,
                     !.stops = stops,
                     !.shape_points = shape_points,
                     !.center = MapCenter(stops, shape_points),
                     !.polyline = IF show_shapes /\ shape_points.queried
                                     /\ shape_points.points # <<>>
                                  THEN [i \in 1..Len(shape_points.points) |->
                                          <<shape_points.points[i].lat[1], shape_points.points[i].lon[1]>>]
                                  ELSE <<>>,
                     !.markers = IF show_stops /\ stops # {}
                                 THEN {<<r.stop_lat[1], r.stop_lon[1]>> : r \in stops}
                                 ELSE {}]
    /\ UNCHANGED <<urlVars, diskVars, extracted, now, fetchVars, loadVars, dbVars, histVars>>

\* the script run ends: st.stop(), an exception, or the last line
DashExit ==
    /\ dpc \in {"halted", "failed", "done"}
    /\ dpc' = "idle"
    /\ dash' = NoDash
    /\ UNCHANGED <<urlVars, diskVars, extracted, now, fetchVars, loadVars, dbVars, histVars>>

DashboardNext ==
    \/ DashOpen
    \/ DashTrips
    \/ DashRender
    \/ DashExit

----------------------------------------------------------------------------
(* URL-resolution specification: the inputs are drawn by InitUrl and the   *)
(* function is applied by ResolveUrl.                                      *)

InitUrl ==
    /\ override \in {<<>>, UrlOld}
    /\ page \in UrlPages
    /\ resolved = [st |-> "pending", url |-> <<>>]
    /\ InitPipeline(EmptyDisk)

ResolveUrl ==
    /\ resolved.st = "pending"
    /\ resolved' = find_gtfs_zip_url(override, page)
    /\ UNCHANGED <<override, page, raw, latest, extracted, now>>
    /\ UNCHANGED <<fetchVars, loadVars, dbVars, histVars, dashVars>>

NextUrl == ResolveUrl

SpecUrl == InitUrl /\ [][NextUrl]_vars

----------------------------------------------------------------------------
(* The pipeline specification.                                             *)

Init ==
    /\ override = <<>>
    /\ page = NoPage
    /\ resolved = Pending
    /\ \E disk \in InitDisks : InitPipeline(disk)

Next == FetcherNext \/ LoaderNext \/ DashboardNext

Spec == Init /\ [][Next]_vars

----------------------------------------------------------------------------
(* Properties.                                                             *)

\* C1: no file whose first two bytes are not PK ever exists under a final
\* archive name in data/raw, during or after any download_zip run.
C1_NoInvalidFileUnderFinalName ==
    \A n \in Names : Exists(n) => MagicOf(n) = PK

DateToken(u) == extract_date_from_filename(AfterLast(u, 47))
Dated(S) == {u \in S : DateToken(u) # <<>>}

\* C2: with no override, when some candidate of the page carries a date token,
\* the returned URL carries one, its token is the greatest of the tokens
\* present, and among the candidates with that token its filename is the
\* greatest; a token of 00000000 counts as a token.
C2_LatestDateTokenChosen ==
    (override = <<>> /\ resolved.st = "returned" /\ Dated(Candidates(page)) # {}) =>
        /\ resolved.url \in Dated(Candidates(page))
        /\ \A v \in Dated(Candidates(page)) :
            /\ ~StrLess(DateToken(resolved.url), DateToken(v))
            /\ DateToken(v) = DateToken(resolved.url) =>
                 ~StrLess(AfterLast(resolved.url, 47), AfterLast(v, 47))

\* the directory the most recent completed load recorded in _meta
LoadedDirs == {r.extracted_dir : r \in meta.rows}

\* C3: when a Loader run has completed and no run has failed, the tables of the
\* database are exactly the recognized files present in the extracted
\* directory of that run.
C3_DatabaseReflectsOneArchive ==
    (lpc = "done" /\ allLoadsOk) =>
        {t \in TableNames : db[t] # 0} = {f[1] : f \in {g \in GtfsFileSet : extracted[out_dir][g] # 0}}

RecordNames(n) == \E r \in latest : r.filename = n

\* C4: find_latest_zip returns the archive latest.json names whenever that
\* archive exists; otherwise an existing archive of the latest modification
\* time; and it raises exactly when it has neither.
C4_ProvenanceBeforeMtime ==
    /\ lpc = "found" =>
        /\ Exists(lzip)
        /\ (\E n \in Names : RecordNames(n) /\ Exists(n)) => RecordNames(lzip)
        /\ ~(\E n \in Names : RecordNames(n) /\ Exists(n)) =>
              \A m \in Names : Exists(m) => raw[m].mtime <= raw[lzip].mtime
    /\ (lpc = "failed" /\ lzip = <<>>) => \A n \in Names : ~Exists(n)

C4_Witness ==
    /\ lpc = "found"
    /\ RecordNames(lzip)
    /\ \E m \in Names : Exists(m) /\ raw[m].mtime > raw[lzip].mtime

\* C5: once extract_zip has completed on an archive, a further run on the same
\* archive does not call extractall and leaves data/extracted as it was; and
\* after any run every recognized file the archive contains is in the
\* directory named after the archive's stem.
C5_ExtractIdempotent ==
    /\ [](lpc = "extracted" =>
            /\ lprior => ~lcalled
            /\ \A f \in GtfsFileSet :
                 f \in Bodies[raw[lzip].body].names => extracted[Stem(lzip)][f] # 0)
    /\ [][(lpc = "found" /\ lpc' = "extracted" /\ <<lzip, raw[lzip].body>> \in extractedOnce)
            => extracted' = extracted]_vars

C5_Witness == lpc = "extracted" /\ lprior /\ ~lcalled

\* the database's last completed load read a directory without shapes.txt
NoShapesLoad ==
    /\ meta.rows # {}
    /\ \A d \in LoadedDirs : extracted[d][F("shapes")] = 0

\* C6: a load from a directory without shapes.txt aborts on no missing file,
\* completes with every present file loaded, the shapes table untouched and
\* the _meta row written; on the database of such a load the Dashboard does
\* not fail, queries and draws no shape, and centres the map on the mean of
\* the trip's stops, or on the default coordinate when it has none.
C6_MissingShapesTolerated ==
    /\ (lpc = "failed" /\ lidx >= 1) => FilePresent(GTFS_FILES[lidx])
    /\ (lpc = "done" /\ ~FilePresent(F("shapes"))) =>
        /\ db["shapes"] = dbBefore.db["shapes"]
        /\ \A f \in GtfsFileSet : FilePresent(f) => db[f[1]] = extracted[out_dir][f]
        /\ meta = [exists |-> TRUE, rows |-> {[loaded_at |-> now, extracted_dir |-> out_dir]}]
    /\ NoShapesLoad =>
        /\ dpc # "failed"
        /\ dpc = "done" =>
            /\ ~dash.shape_points.queried
            /\ dash.shape_points.points = <<>>
            /\ dash.polyline = <<>>
            /\ dash.center = IF dash.stops # {}
                             THEN <<MeanOf(dash.stops, "stop_lat"), MeanOf(dash.stops, "stop_lon")>>
                             ELSE DefaultCenter

C6_Witness ==
    /\ NoShapesLoad
    /\ dpc = "done"
    /\ dash.show_shapes
    /\ dash.stops = {}
    /\ db["shapes"] = 0

\* the trips of the selected route with the chosen direction, as the claim
\* states the filter
TripsInDirection ==
    {t \in TripsOf(db["trips"]) :
        /\ t.route_id = dash.route_id
        /\ (dash.direction_filter = "Ambas" \/ t.direction_id = dash.direction_filter)}

\* C7: the Dashboard halts with the empty-result warning exactly when the
\* route's trips filtered by the direction are none; the halt is no exception
\* and nothing after it has run; with trips left, the script goes on with them.
C7_EmptyResultHalts ==
    /\ dpc = "halted" =>
        /\ TripsInDirection = {}
        /\ dash.error = ""
        /\ dash = [NoDash EXCEPT !.route_id = dash.route_id,
                                 !.direction_filter = dash.direction_filter]
    /\ dpc \in {"trip", "done"} =>
        /\ TripsInDirection # {}
        /\ dash.trips = TripsInDirection
        /\ \E t \in TripsInDirection : t.trip_id = dash.trip_id

C7_Witness == dpc = "halted" /\ dash.direction_filter = "1" /\ HasTable("trips")

\* C8: latest.json describes the most recent download that passed the magic
\* check (its filename and its size), except between that check and the write;
\* a run that fails leaves it as it was.
C8_RecordDescribesLastSuccess ==
    fpc # "validated" => latest = fok

C8_Witness ==
    /\ fpc = "failed"
    /\ resolved.st = "returned"
    /\ Exists(out_path)
    /\ MagicOf(out_path) # PK
    /\ latest # {}

\* C9: when a run aborts at the file of index lidx, the tables of the present
\* files before it hold the rows of this run, every other table and _meta are
\* as they were when the run connected.
C9_NoRollback ==
    (lpc = "failed" /\ lidx >= 1) =>
        /\ \A i \in 1..Len(GTFS_FILES) :
            LET f == GTFS_FILES[i] IN
            IF i < lidx /\ FilePresent(f)
            THEN db[f[1]] = extracted[out_dir][f]
            ELSE db[f[1]] = dbBefore.db[f[1]]
        /\ meta = dbBefore.meta

C9_Witness ==
    /\ lpc = "failed"
    /\ lidx >= 1
    /\ meta.rows # {}
    /\ \E i \in 1..(lidx - 1) : db[GTFS_FILES[i][1]] # dbBefore.db[GTFS_FILES[i][1]]
    /\ \E i \in lidx..Len(GTFS_FILES) :
         /\ FilePresent(GTFS_FILES[i])
         /\ db[GTFS_FILES[i][1]] # 0
         /\ db[GTFS_FILES[i][1]] # extracted[out_dir][GTFS_FILES[i]]

\* C10: the Dashboard's table test is true exactly when the shapes table
\* exists, so with the table, the toggle on and a non-empty shape_id the
\* shape's points are queried and, when there are any, drawn.
C10_ShapeDrawnWhenLoaded ==
    /\ ShapesTableListed <=> HasTable("shapes")
    /\ (dpc = "done" /\ HasTable("shapes") /\ dash.show_shapes
          /\ dash.shape_id # Null /\ dash.shape_id # "") =>
        /\ dash.shape_points.queried
        /\ dash.polyline = [i \in 1..Len(ShapeQuery(dash.shape_id)) |->
              <<ShapeQuery(dash.shape_id)[i].lat[1], ShapeQuery(dash.shape_id)[i].lon[1]>>]

=============================================================================
